---- MODULE Spec2Model ----
(***************************************************************************)
(* Review session of swipe-images: the HomeScreen component                *)
(* (src/app/index.tsx) on top of the ImageSwipeProvider                    *)
(* (src/contexts/image-swipe-context.tsx).                                 *)
(*                                                                         *)
(* React state is modelled twice: the committed state (what the setState   *)
(* updaters have produced) and the rendered snapshot `r` that the event    *)
(* handlers and effects close over.  A handler reads `r`, its functional   *)
(* updaters (prev => ...) read the committed state.  Render copies the     *)
(* state into `r` and runs the effects whose dependencies changed.         *)
(* Indices are 0-based as in the source; At(s, i) is s[i] of the source.   *)
(***************************************************************************)
EXTENDS Integers, Sequences, FiniteSets, TLC

\* ---------------------------------------------------------------- bounds
NumIds == 3
MaxSwipes == 2
MaxCommits == 1
MaxRestarts == 1
MaxExternal == 1
MaxWriteFails == 1
MaxEnvEvents == 1    \* restarts and library changes by others, together
RuleIds == 4         \* photos in the comparison of the two cursor rules

Ids == 1..NumIds
None == 0
NoHash == <<0>>

VARIABLES
  store,              \* ids of the photos in the media library
  albums,             \* the albums of the library, in the order getAlbumsAsync
                      \* reports them: for each, the ids of its photos
  stKeep, stDel,      \* AsyncStorage: @swipe:kept_images, @swipe:deletion_images
  stLast,             \* AsyncStorage: @swipe:last_viewed_image
  images, imagesLoading, permissionGranted,
  imagesChanged,      \* setImages has installed a new array since the last render
  markedForDeletion, markedForKeep,
  currentIndex, history, isDeleting,
  initialPositionLoaded, isUndoing, targetId, imagesHash,
  startImageId,       \* route parameter of this mount
  r,                  \* rendered snapshot read by handlers and effects
  flush,              \* a press handler has returned: React renders before the next task
  ld,                 \* position of requestPermissions / loadImages
  cm,                 \* the in-flight handleCommitDeletion call
  ut,                 \* the timers started by handleUndo; denied: a handleUndo call
                      \* has been turned away by isUndoingRef since (history variable)
  plPending,          \* unresolved loadLastViewedImage() promises
  cg,                 \* record of the last commit (history variable)
  rt,                 \* the current run of tag calls followed by undo calls (history variable)
  lastAlert,          \* the Alert.alert raised by the last step ("none": no alert)
  lg,                 \* the session as it was when the running loadImages call started
                      \* (history variable)
  nSwipes, nCommits, nRestarts, nExternal, nWriteFails

ctxVars == <<images, imagesChanged, imagesLoading, permissionGranted, markedForDeletion,
            markedForKeep>>
homeVars == <<currentIndex, history, isDeleting>>
refVars == <<initialPositionLoaded, isUndoing, targetId, imagesHash>>
storageVars == <<stKeep, stDel, stLast>>
countVars == <<nSwipes, nCommits, nRestarts, nExternal, nWriteFails>>
vars == <<store, albums, stKeep, stDel, stLast, images, imagesChanged, imagesLoading, permissionGranted,
          markedForDeletion, markedForKeep, currentIndex, history, isDeleting,
          initialPositionLoaded, isUndoing, targetId, imagesHash, startImageId,
          r, flush, ld, cm, ut, plPending, cg, rt, lastAlert, lg, nSwipes, nCommits,
          nRestarts, nExternal, nWriteFails>>

\* ---------------------------------------------------------------- helpers
At(s, i) == s[i + 1]

RECURSIVE SortedSeq(_)
\* allImages.sort((a, b) => b.creationTime - a.creationTime): the id stands
\* for the rank of the photo in that order
SortedSeq(S) ==
  IF S = {} THEN <<>>
  ELSE LET m == CHOOSE x \in S : \A y \in S : x <= y
       IN <<m>> \o SortedSeq(S \ {m})

\* the same sort on a list: equal ids stay in it as often as they occur
RECURSIVE SortList(_)
SortList(s) ==
  IF s = <<>> THEN <<>>
  ELSE LET m == CHOOSE x \in {s[i] : i \in 1..Len(s)} :
                  \A i \in 1..Len(s) : x <= s[i]
       IN SelectSeq(s, LAMBDA x : x = m) \o SortList(SelectSeq(s, LAMBDA x : x # m))

\* the for loop over the albums: every asset of every album is pushed
RECURSIVE AlbumAssets(_)
AlbumAssets(albs) ==
  IF albs = <<>> THEN <<>>
  ELSE SortedSeq(Head(albs)) \o AlbumAssets(Tail(albs))

\* loadImages, from getAlbumsAsync to the sorted list: the assets of the albums,
\* then those of the whole library that are not in the list yet, sorted
ListAll(albs, lib) ==
  LET allImages == AlbumAssets(albs)
      notFound == SelectSeq(SortedSeq(lib),
                            LAMBDA x : \A i \in 1..Len(allImages) : allImages[i] # x)
  IN SortList(allImages \o notFound)

\* the albums after the library has lost the photos in gone
AlbumsWithout(gone) == [i \in 1..Len(albums) |-> albums[i] \ gone]

\* images.findIndex((img) => img.id === id), -1 when absent
FindIndex(s, id) ==
  IF \E i \in 1..Len(s) : s[i] = id
  THEN (CHOOSE i \in 1..Len(s) : s[i] = id /\ \A j \in 1..(i - 1) : s[j] # id) - 1
  ELSE -1

ButLast(s) == IF Len(s) = 0 THEN s ELSE SubSeq(s, 1, Len(s) - 1)

Snapshot ==
  [images |-> images, imagesLoading |-> imagesLoading,
   permissionGranted |-> permissionGranted,
   markedForDeletion |-> markedForDeletion,
   currentIndex |-> currentIndex, history |-> history,
   isDeleting |-> isDeleting]

\* a second call of handleCommitDeletion made while the first has not returned:
\* what it captured before its await of deleteAssetsAsync
NoSecond == [on |-> FALSE, ids |-> {}, oldImages |-> <<>>, oldHistory |-> <<>>,
             perm |-> FALSE]
IdleCm == [pc |-> "idle", ids |-> {}, oldImages |-> <<>>, oldHistory |-> <<>>,
           perm |-> FALSE, again |-> NoSecond, read |-> {}]
IdleUt == [pc |-> "idle", id |-> None, denied |-> FALSE]
NoCommit == [st |-> "none", images |-> <<>>, cursor |-> 0, marked |-> {},
             keep |-> {}, history |-> <<>>, sent |-> {}, removed |-> {},
             target |-> None]
NoRun == [on |-> FALSE, c0 |-> 0, n |-> 0, u |-> 0]
NoListing == [st |-> "none", images |-> <<>>, marked |-> {}, keep |-> {},
              cursor |-> 0, history |-> <<>>]

\* the loading view, the permission view and the "No Images Found" view replace
\* the cards and the buttons (index.tsx 390-425)
UiShown == ~r.imagesLoading /\ r.permissionGranted /\ Len(r.images) > 0

\* the "Permission Required" view (index.tsx 401-412)
PermissionView == ~r.imagesLoading /\ ~r.permissionGranted

\* The handlers are called from the cards and the buttons.  They are defined on
\* every render, so they are also exercised while the permission view is up.
HandlersCallable == UiShown \/ PermissionView

\* ---------------------------------------------------------------- Init
Init ==
  /\ store = Ids
  /\ albums = <<>>
  /\ stKeep = {} /\ stDel = {} /\ stLast = None
  /\ images = <<>> /\ imagesLoading = TRUE /\ permissionGranted = FALSE
  /\ imagesChanged = FALSE
  /\ markedForDeletion = {} /\ markedForKeep = {}
  /\ currentIndex = 0 /\ history = <<>> /\ isDeleting = FALSE
  /\ initialPositionLoaded = FALSE /\ isUndoing = FALSE
  /\ targetId = None /\ imagesHash = NoHash
  /\ startImageId \in {None} \cup Ids
  /\ r = [images |-> <<>>, imagesLoading |-> TRUE, permissionGranted |-> FALSE,
          markedForDeletion |-> {}, currentIndex |-> 0, history |-> <<>>,
          isDeleting |-> FALSE]
  /\ flush = FALSE
  /\ ld = "perm"
  /\ cm = IdleCm
  /\ ut = IdleUt
  /\ plPending = {}
  /\ cg = NoCommit
  /\ rt = NoRun
  /\ lastAlert = "none"
  /\ lg = NoListing
  /\ nSwipes = 0 /\ nCommits = 0 /\ nRestarts = 0 /\ nExternal = 0
  /\ nWriteFails = 0

\* ------------------------------------------------- ImageSwipeProvider
\* savePersistedKeptImages / savePersistedDeletionImages: AsyncStorage.setItem
\* stores the set, or throws and the catch block only logs (ok = FALSE)
SaveKept(keptIds, ok) == stKeep' = IF ok THEN keptIds ELSE stKeep
SaveDeletion(deletionIds, ok) == stDel' = IF ok THEN deletionIds ELSE stDel

\* the outcomes of the writes of one provider call: all succeed, or the write
\* of one key fails
WriteOutcomes(keys) == {"ok"} \cup (IF nWriteFails < MaxWriteFails THEN keys ELSE {})
CountWrite(w) == nWriteFails' = IF w = "ok" THEN nWriteFails ELSE nWriteFails + 1

\* markForDeletion(imageId), with its two savePersisted* calls
MarkDel(id, w) ==
  /\ markedForDeletion' = markedForDeletion \cup {id}
  /\ SaveDeletion(markedForDeletion \cup {id}, w # "deletion")
  /\ markedForKeep' = markedForKeep \ {id}
  /\ SaveKept(markedForKeep \ {id}, w # "kept")

\* markForKeep(imageId): the deletion set is updated in memory only
MarkKeep(id, w) ==
  /\ markedForKeep' = markedForKeep \cup {id}
  /\ SaveKept(markedForKeep \cup {id}, w # "kept")
  /\ markedForDeletion' = markedForDeletion \ {id}
  /\ stDel' = stDel

UnmarkDel(id, w) ==
  /\ markedForDeletion' = markedForDeletion \ {id}
  /\ SaveDeletion(markedForDeletion \ {id}, w # "deletion")
  /\ UNCHANGED <<markedForKeep, stKeep>>

UnmarkKeep(id, w) ==
  /\ markedForKeep' = markedForKeep \ {id}
  /\ SaveKept(markedForKeep \ {id}, w # "kept")
  /\ UNCHANGED <<markedForDeletion, stDel>>

\* The turn that ends loadImages also runs the rest of handleCommitDeletion
\* before any other task; the updates of a press handler (undo, commit) are
\* rendered before the next task.
Turn == cm.pc # "finish" /\ ~flush

\* Nothing is waiting to be rendered.  A render is queued by the state change
\* itself, so it runs before any timer or I/O completion that is still to
\* come; only input events that are already queued can overtake it.
Settled == Turn /\ r = Snapshot /\ ~imagesChanged

\* History variable lg: loadImages() starts, and the session it starts from
ListingStart ==
  [st |-> "running", images |-> images, marked |-> markedForDeletion,
   keep |-> markedForKeep, cursor |-> currentIndex, history |-> history]

\* a step of another operation: the record is given up when that operation
\* changes the session while loadImages is running
LgKeep ==
  lg' = IF lg.st = "none"
           \/ UNCHANGED <<markedForDeletion, markedForKeep, history, currentIndex>>
        THEN lg ELSE [NoListing EXCEPT !.st = "mixed"]

\* requestPermissions() that calls loadImages() whatever the status
PermissionResultLoadsAnyway ==
  /\ Settled
  /\ ld = "perm"
  /\ \E granted \in BOOLEAN :
       /\ permissionGranted' = granted
       /\ imagesLoading' = TRUE
       /\ ld' = "read"
       /\ lg' = ListingStart
  /\ UNCHANGED <<store, albums, storageVars, images, imagesChanged, markedForDeletion,
                 markedForKeep, homeVars, refVars, startImageId, r, flush, cm, ut,
                 plPending, cg, countVars, rt>>
  /\ lastAlert' = "none"

\* requestPermissions(): the answer of MediaLibrary.requestPermissionsAsync()
PermissionResult ==
  /\ Settled
  /\ ld = "perm"
  /\ \E granted \in BOOLEAN :
       IF granted
       THEN /\ permissionGranted' = TRUE
            /\ imagesLoading' = TRUE          \* loadImages: setImagesLoading(true)
            /\ ld' = "read"
            /\ lg' = ListingStart
       ELSE /\ permissionGranted' = FALSE
            /\ imagesLoading' = FALSE
            /\ ld' = "idle"
            /\ lg' = lg
  /\ UNCHANGED <<store, albums, storageVars, images, imagesChanged, markedForDeletion,
                 markedForKeep, homeVars, refVars, startImageId, r, flush, cm, ut,
                 plPending, cg, countVars, rt>>
  /\ lastAlert' = "none"

\* loadImages(): the persisted choices have been read and are restored
LoadPersisted ==
  /\ Settled
  /\ ld = "read"
  /\ markedForKeep' = stKeep
  /\ markedForDeletion' = stDel
  /\ ld' = "fetch"
  /\ UNCHANGED <<store, albums, storageVars, images, imagesChanged, imagesLoading,
                 permissionGranted, homeVars, refVars, startImageId, r, flush, cm, ut,
                 plPending, cg, countVars, rt, lg>>
  /\ lastAlert' = "none"

\* loadImages(): the library listing has arrived (or thrown); the caller of
\* refreshImages() resumes in the same turn
LoadFetched ==
  /\ Settled
  /\ ld = "fetch"
  /\ \E ok \in BOOLEAN :
       /\ images' = IF ok THEN ListAll(albums, store) ELSE images
       /\ imagesChanged' = (imagesChanged \/ ok)
       /\ lastAlert' = IF ok THEN "none" ELSE "LoadError"
       /\ lg' = IF ~ok /\ cm.pc = "refreshing" /\ lg.st = "running"
                THEN [lg EXCEPT !.st = "failed"] ELSE NoListing
  /\ imagesLoading' = FALSE
  /\ ld' = "idle"
  /\ cm' = IF cm.pc = "refreshing" THEN [cm EXCEPT !.pc = "finish"] ELSE cm
  /\ UNCHANGED <<store, albums, storageVars, permissionGranted, markedForDeletion,
                 markedForKeep, homeVars, refVars, startImageId, r, flush, ut,
                 plPending, cg, countVars, rt>>

\* ------------------------------------------------------------ HomeScreen
\* History variable rt: a run of n tag calls followed by u undo calls that
\* started with an empty ledger and an empty history, and the cursor c0 it
\* started at.  A tag call extends the run or starts a new one.
RtTag ==
  rt' = IF rt.on /\ rt.u = 0
        THEN [rt EXCEPT !.n = rt.n + 1]
        ELSE IF /\ markedForDeletion = {} /\ markedForKeep = {} /\ history = <<>>
                /\ cm.pc = "idle" /\ ~isDeleting /\ ~isUndoing
             THEN [on |-> TRUE, c0 |-> currentIndex, n |-> 1, u |-> 0]
             ELSE NoRun

\* an undo call issued after the previous undo has completed continues the run
RtUndo ==
  rt' = IF ~rt.on THEN rt
        ELSE IF isUndoing \/ rt.u >= rt.n THEN NoRun
        ELSE [rt EXCEPT !.u = rt.u + 1]

\* the record of a finished commit is dropped at the next tag or undo
CgExpire ==
  cg' = IF cg.st \in {"done", "rejected"} /\ cm.pc = "idle" /\ ~isDeleting
        THEN NoCommit ELSE cg

\* setCurrentIndex((prev) => ...) of handleSwipeLeft / handleSwipeRight
NextIndex(prev, len) == IF prev + 1 >= len THEN prev ELSE prev + 1

\* handleSwipeLeft (left = TRUE) and handleSwipeRight (left = FALSE)
HandleSwipe(left) ==
  /\ Turn /\ HandlersCallable
  /\ nSwipes < MaxSwipes
  /\ nSwipes' = nSwipes + 1
  /\ IF isUndoing \/ r.currentIndex >= Len(r.images)
     THEN UNCHANGED <<history, currentIndex, markedForDeletion, markedForKeep,
                      stKeep, stDel, nWriteFails>>
          /\ lastAlert' = "none"
     ELSE /\ history' = Append(history, [index |-> r.currentIndex, wasLeftSwipe |-> left])
          /\ IF left
             THEN \E w \in WriteOutcomes({"kept", "deletion"}) :
                    MarkDel(At(r.images, r.currentIndex), w) /\ CountWrite(w)
             ELSE \E w \in WriteOutcomes({"kept"}) :
                    MarkKeep(At(r.images, r.currentIndex), w) /\ CountWrite(w)
          /\ currentIndex' = NextIndex(currentIndex, Len(r.images))
          /\ lastAlert' = IF currentIndex + 1 >= Len(r.images) THEN "Reviewed"
                          ELSE "none"
  /\ UNCHANGED <<store, albums, stLast, images, imagesChanged, imagesLoading, permissionGranted,
                 isDeleting, refVars, startImageId, r, flush, ld, cm, ut, plPending,
                 nCommits, nRestarts, nExternal>>
  /\ CgExpire
  /\ RtTag
  /\ LgKeep

HandleSwipeLeft == HandleSwipe(TRUE)
HandleSwipeRight == HandleSwipe(FALSE)

\* handleUndo without the isUndoingRef test (lines 217-220)
HandleUndoUnguarded ==
  /\ Turn /\ HandlersCallable
  /\ lastAlert' = IF Len(r.history) = 0 THEN "NothingToUndo" ELSE "none"
  /\ IF Len(r.history) = 0
     THEN /\ ut' = IF Len(r.history) # 0 THEN [ut EXCEPT !.denied = TRUE] ELSE ut
          /\ UNCHANGED <<history, currentIndex, markedForDeletion, markedForKeep,
                         stKeep, stDel, isUndoing, flush, nWriteFails>>
     ELSE LET lastAction == r.history[Len(r.history)]
              previousIndex == lastAction.index
          IN /\ flush' = TRUE
             /\ IF previousIndex >= Len(r.images) \/ previousIndex < 0
                THEN /\ history' = ButLast(history)
                     /\ UNCHANGED <<currentIndex, markedForDeletion, markedForKeep,
                                    stKeep, stDel, isUndoing, ut, nWriteFails>>
                ELSE /\ IF lastAction.wasLeftSwipe
                        THEN \E w \in WriteOutcomes({"deletion"}) :
                               UnmarkDel(At(r.images, previousIndex), w) /\ CountWrite(w)
                        ELSE \E w \in WriteOutcomes({"kept"}) :
                               UnmarkKeep(At(r.images, previousIndex), w) /\ CountWrite(w)
                     /\ isUndoing' = TRUE
                     /\ history' = ButLast(history)
                     /\ currentIndex' = previousIndex
                     /\ ut' = [pc |-> "t400", id |-> At(r.images, previousIndex),
                              denied |-> FALSE]
  /\ UNCHANGED <<store, albums, stLast, images, imagesChanged, imagesLoading, permissionGranted,
                 isDeleting, initialPositionLoaded, targetId, imagesHash,
                 startImageId, r, ld, cm, plPending, nSwipes, nCommits, nRestarts,
                 nExternal>>
  /\ CgExpire
  /\ RtUndo
  /\ LgKeep

\* handleUndo
HandleUndo ==
  /\ Turn /\ HandlersCallable
  /\ lastAlert' = IF Len(r.history) = 0 THEN "NothingToUndo" ELSE "none"
  /\ IF Len(r.history) = 0 \/ isUndoing
     THEN /\ ut' = IF Len(r.history) # 0 THEN [ut EXCEPT !.denied = TRUE] ELSE ut
          /\ UNCHANGED <<history, currentIndex, markedForDeletion, markedForKeep,
                         stKeep, stDel, isUndoing, flush, nWriteFails>>
     ELSE LET lastAction == r.history[Len(r.history)]
              previousIndex == lastAction.index
          IN /\ flush' = TRUE
             /\ IF previousIndex >= Len(r.images) \/ previousIndex < 0
                THEN /\ history' = ButLast(history)
                     /\ UNCHANGED <<currentIndex, markedForDeletion, markedForKeep,
                                    stKeep, stDel, isUndoing, ut, nWriteFails>>
                ELSE /\ IF lastAction.wasLeftSwipe
                        THEN \E w \in WriteOutcomes({"deletion"}) :
                               UnmarkDel(At(r.images, previousIndex), w) /\ CountWrite(w)
                        ELSE \E w \in WriteOutcomes({"kept"}) :
                               UnmarkKeep(At(r.images, previousIndex), w) /\ CountWrite(w)
                     /\ isUndoing' = TRUE
                     /\ history' = ButLast(history)
                     /\ currentIndex' = previousIndex
                     /\ ut' = [pc |-> "t400", id |-> At(r.images, previousIndex),
                              denied |-> FALSE]
  /\ UNCHANGED <<store, albums, stLast, images, imagesChanged, imagesLoading, permissionGranted,
                 isDeleting, initialPositionLoaded, targetId, imagesHash,
                 startImageId, r, ld, cm, plPending, nSwipes, nCommits, nRestarts,
                 nExternal>>
  /\ CgExpire
  /\ RtUndo
  /\ LgKeep

\* the 400 ms timer of handleUndo: saveLastViewedImage(images[previousIndex].id)
UndoSaveTimer ==
  /\ Settled
  /\ ut.pc = "t400"
  /\ stLast' = ut.id
  /\ ut' = [ut EXCEPT !.pc = "t100"]
  /\ UNCHANGED <<store, albums, stKeep, stDel, ctxVars, homeVars, refVars, startImageId, r, flush,
                 ld, cm, plPending, cg, countVars, rt, lg>>
  /\ lastAlert' = "none"

\* the nested 100 ms timer without the reset of isUndoingRef (line 276)
UndoResetTimerKeepsFlag ==
  /\ Settled
  /\ ut.pc = "t100"
  /\ ut' = IdleUt
  /\ UNCHANGED <<store, albums, storageVars, ctxVars, homeVars, initialPositionLoaded,
                 isUndoing, targetId, imagesHash, startImageId, r, flush, ld, cm,
                 plPending, cg, countVars, rt, lg>>
  /\ lastAlert' = "none"

\* the nested 100 ms timer: isUndoingRef.current = false
UndoResetTimer ==
  /\ Settled
  /\ ut.pc = "t100"
  /\ isUndoing' = FALSE
  /\ ut' = IdleUt
  /\ UNCHANGED <<store, albums, storageVars, ctxVars, homeVars, initialPositionLoaded,
                 targetId, imagesHash, startImageId, r, flush, ld, cm, plPending, cg,
                 countVars, rt, lg>>
  /\ lastAlert' = "none"

\* loadLastViewedImage().then(...) of the initial-position effect; p.imgs is
\* the images array the effect closed over, p.last the id AsyncStorage held when
\* the read was issued (reads and writes are served in the order of the calls)
PositionLoaded ==
  /\ Settled
  /\ \E p \in plPending :
       /\ plPending' = plPending \ {p}
       /\ currentIndex' =
            IF /\ p.last # None /\ Len(p.imgs) > 0
               /\ ~initialPositionLoaded /\ ~isUndoing
               /\ FindIndex(p.imgs, p.last) # -1
            THEN FindIndex(p.imgs, p.last)
            ELSE currentIndex
  /\ initialPositionLoaded' = TRUE
  /\ UNCHANGED <<store, albums, storageVars, ctxVars, history, isDeleting, isUndoing,
                 targetId, imagesHash, startImageId, r, flush, ld, cm, ut, cg, countVars, rt>>
  /\ lastAlert' = "none"
  /\ LgKeep

\* ---------------------------------------------------------------- effects
\* the restore effect without the fallback to the first image (lines 114-120)
RestoreIndexNoFallback(imgs, target) ==
  IF target # None /\ FindIndex(imgs, target) # -1 THEN FindIndex(imgs, target)
  ELSE IF target # None THEN currentIndex ELSE 0

\* "Restore position after deletion completes": the index it sets
RestoreIndex(imgs, target) ==
  IF target # None /\ FindIndex(imgs, target) # -1 THEN FindIndex(imgs, target) ELSE 0

\* ... and the id it passes to saveLastViewedImage (None: no call)
RestoreSaved(imgs, target) ==
  IF target = None THEN None
  ELSE IF FindIndex(imgs, target) # -1 THEN target ELSE At(imgs, 0)

\* ... and its history filter: entry.index < images.length
RestoreHistory(h, imgs) == SelectSeq(h, LAMBDA e : e.index < Len(imgs))

\* A render: handlers and effects now close over the committed state, and the
\* three effects of HomeScreen run, in order, if their dependencies changed.
Render ==
  /\ r # Snapshot \/ imagesChanged \/ flush
  /\ flush' = FALSE
  /\ LET new == Snapshot
         loadingDep == r.imagesLoading # new.imagesLoading
         deletingDep == r.isDeleting # new.isDeleting
         \* effect 1: load initial position (deps: imagesLoading, images.length)
         e1 == /\ loadingDep \/ Len(r.images) # Len(new.images)
               /\ ~new.imagesLoading /\ ~initialPositionLoaded
               /\ Len(new.images) # 0 /\ ~isUndoing
         e1Start == e1 /\ startImageId # None
         e1Load == e1 /\ startImageId = None
         cur1 == IF e1Start /\ FindIndex(new.images, startImageId) # -1
                 THEN FindIndex(new.images, startImageId) ELSE currentIndex
         ipl1 == initialPositionLoaded \/ e1Start
         \* effect 2: restore position after deletion (deps: isDeleting,
         \* imagesLoading, images)
         run2 == deletingDep \/ loadingDep \/ imagesChanged
         e2a == /\ run2 /\ new.isDeleting /\ ~new.imagesLoading
                /\ Len(new.images) > 0 /\ imagesHash # new.images
         e2b == /\ run2 /\ new.isDeleting /\ ~new.imagesLoading
                /\ Len(new.images) = 0
         last2 == IF e2a /\ RestoreSaved(new.images, targetId) # None
                  THEN RestoreSaved(new.images, targetId) ELSE stLast
         \* effect 3: save current image id (deps: currentIndex, images, isDeleting)
         e3 == /\ r.currentIndex # new.currentIndex \/ imagesChanged \/ deletingDep
               /\ ipl1 /\ Len(new.images) # 0
               /\ new.currentIndex < Len(new.images)
               /\ ~isUndoing /\ ~new.isDeleting
     IN /\ r' = new
        /\ imagesChanged' = FALSE
        /\ currentIndex' = IF e2a THEN RestoreIndex(new.images, targetId)
                           ELSE IF e2b THEN 0 ELSE cur1
        /\ history' = IF e2a THEN RestoreHistory(history, new.images) ELSE history
        /\ isDeleting' = IF e2a \/ e2b THEN FALSE ELSE isDeleting
        /\ targetId' = IF e2a \/ e2b THEN None ELSE targetId
        /\ initialPositionLoaded' = ipl1
        /\ plPending' = IF e1Load
                        THEN plPending \cup {[imgs |-> new.images, last |-> stLast]}
                        ELSE plPending
        /\ stLast' = IF e3 THEN At(new.images, new.currentIndex) ELSE last2
  /\ UNCHANGED <<store, albums, stKeep, stDel, images, imagesLoading, permissionGranted,
                 markedForDeletion, markedForKeep, isUndoing, imagesHash,
                 startImageId, ld, cm, ut, cg, countVars, rt>>
  /\ lastAlert' = "none"
  /\ LgKeep

\* ------------------------------------------------- handleCommitDeletion
Survives(imgs, marked, j) == j >= 0 /\ j < Len(imgs) /\ At(imgs, j) \notin marked

\* lines 296-332: the id to land on after the deletion (None: null)
TargetAfterDeletion(imgs, idx, marked) ==
  IF idx < Len(imgs) /\ At(imgs, idx) \notin marked
  THEN At(imgs, idx)
  ELSE IF \E j \in (idx + 1)..(Len(imgs) - 1) : Survives(imgs, marked, j)
       THEN At(imgs, CHOOSE j \in (idx + 1)..(Len(imgs) - 1) :
                       /\ Survives(imgs, marked, j)
                       /\ \A k \in (idx + 1)..(j - 1) : ~Survives(imgs, marked, k))
       ELSE IF \E j \in 0..(idx - 1) : Survives(imgs, marked, j)
            THEN At(imgs, CHOOSE j \in 0..(idx - 1) :
                            /\ Survives(imgs, marked, j)
                            /\ \A k \in (j + 1)..(idx - 1) : ~Survives(imgs, marked, k))
            ELSE None

\* oldImages[prevIndex].id of line 322 reads past the array
TargetThrows(imgs, idx) == idx - 1 >= Len(imgs)

\* lines 349-363: entries whose image (in the old array) was not marked
FilterHistory(h, imgs, marked) ==
  SelectSeq(h, LAMBDA e : e.index < Len(imgs) /\ At(imgs, e.index) \notin marked)

\* clearDeletion() of the provider: the delete side is emptied
ClearDeletion == markedForDeletion' = {}

\* the synchronous part, up to the call of MediaLibrary.deleteAssetsAsync
HandleCommitDeletion ==
  /\ Turn /\ HandlersCallable
  /\ cm.pc = "idle"
  /\ imagesHash' = r.images
  /\ IF r.markedForDeletion = {}
     THEN /\ lastAlert' = "NoImages"
          /\ UNCHANGED <<isDeleting, targetId, cm, cg, nCommits, flush, rt>>
     ELSE IF TargetThrows(r.images, r.currentIndex)
     THEN /\ isDeleting' = FALSE                  \* catch (lines 382-387)
          /\ targetId' = None
          /\ lastAlert' = "Error"
          /\ UNCHANGED <<cm, cg, nCommits, flush, rt>>
     ELSE /\ nCommits < MaxCommits
          /\ lastAlert' = "none"
          /\ flush' = TRUE
          /\ rt' = NoRun
          /\ nCommits' = nCommits + 1
          /\ isDeleting' = TRUE
          /\ targetId' = TargetAfterDeletion(r.images, r.currentIndex, r.markedForDeletion)
          /\ cm' = [pc |-> "deleting", ids |-> r.markedForDeletion,
                    oldImages |-> r.images, oldHistory |-> r.history,
                    perm |-> r.permissionGranted, again |-> cm.again, read |-> {}]
          /\ cg' = [st |-> "inflight", images |-> images, cursor |-> currentIndex,
                    marked |-> markedForDeletion, keep |-> markedForKeep,
                    history |-> history, sent |-> r.markedForDeletion,
                    removed |-> {},
                    target |-> TargetAfterDeletion(r.images, r.currentIndex,
                                                   r.markedForDeletion)]
  /\ UNCHANGED <<store, albums, storageVars, ctxVars, currentIndex, history,
                 initialPositionLoaded, isUndoing, startImageId, r, ld, ut,
                 plPending, nSwipes, nRestarts, nExternal, nWriteFails, lg>>

\* deleteAssetsAsync settles: the library removed `removed`, and the call
\* either resolves or rejects (catch: lines 382-387)
DeleteSettles ==
  /\ Settled
  /\ cm.pc = "deleting"
  /\ \E removed \in SUBSET (cm.ids \cap store), rejects \in BOOLEAN :
       /\ store' = store \ removed
       /\ albums' = AlbumsWithout(removed)
       /\ IF rejects
          THEN /\ isDeleting' = FALSE
               /\ targetId' = None
               /\ cm' = [IdleCm EXCEPT !.again = cm.again]
               /\ cg' = [cg EXCEPT !.st = "rejected", !.removed = removed]
               /\ lastAlert' = "Error"
          ELSE /\ cm' = [cm EXCEPT !.pc = "removingKeep"]
               /\ cg' = [cg EXCEPT !.removed = removed]
               /\ UNCHANGED <<isDeleting, targetId>>
               /\ lastAlert' = "none"
  /\ UNCHANGED <<storageVars, ctxVars, currentIndex, history, initialPositionLoaded,
                 isUndoing, imagesHash, startImageId, r, flush, ld, ut, plPending, countVars, rt,
                 lg>>

\* await removeFromPersistedKeep(imageIdsToDelete), its read and its write taken
\* as one step
RemovePersistedKeep ==
  /\ Settled
  /\ cm.pc = "removingKeep"
  /\ stKeep' = stKeep \ cm.ids
  /\ cm' = [cm EXCEPT !.pc = "removingDeletion"]
  /\ UNCHANGED <<store, albums, stDel, stLast, ctxVars, homeVars, refVars, startImageId,
                 r, flush, ld, ut, plPending, cg, countVars, rt, lg>>
  /\ lastAlert' = "none"

\* await removeFromPersistedDeletion(imageIdsToDelete), read and write taken as
\* one step, then refreshImages() starts loadImages
RemovePersistedDeletion ==
  /\ Settled
  /\ cm.pc = "removingDeletion"
  /\ stDel' = stDel \ cm.ids
  /\ IF cm.perm
     THEN /\ imagesLoading' = TRUE
          /\ ld' = "read"
          /\ cm' = [cm EXCEPT !.pc = "refreshing"]
          /\ lg' = ListingStart
     ELSE /\ cm' = [cm EXCEPT !.pc = "finish"]
          /\ UNCHANGED <<imagesLoading, ld, lg>>
  /\ UNCHANGED <<store, albums, stKeep, stLast, images, imagesChanged, permissionGranted,
                 markedForDeletion, markedForKeep, homeVars, refVars, startImageId,
                 r, flush, ut, plPending, cg, countVars, rt>>
  /\ lastAlert' = "none"

\* CommitFinish without the remainingCount === 0 branch (lines 373-377)
CommitFinishNoEmptyBranch ==
  /\ cm.pc = "finish"
  /\ ClearDeletion
  /\ history' = FilterHistory(cm.oldHistory, cm.oldImages, cm.ids)
  /\ lastAlert' = "Success"
  /\ cm' = [IdleCm EXCEPT !.again = cm.again]
  /\ cg' = [cg EXCEPT !.st = "done"]
  /\ lg' = NoListing
  /\ UNCHANGED <<store, albums, storageVars, images, imagesChanged, imagesLoading,
                 permissionGranted, markedForKeep, initialPositionLoaded, isUndoing,
                 imagesHash, startImageId, r, flush, ld, ut, plPending, countVars, rt,
                 isDeleting, targetId, currentIndex>>

\* lines 344-381, after refreshImages() has resolved
CommitFinish ==
  /\ cm.pc = "finish"
  /\ ClearDeletion
  /\ history' = FilterHistory(cm.oldHistory, cm.oldImages, cm.ids)
  /\ IF \A i \in 1..Len(cm.oldImages) : cm.oldImages[i] \in cm.ids
     THEN /\ isDeleting' = FALSE
          /\ targetId' = None
          /\ currentIndex' = 0
          /\ lastAlert' = "AllDeleted"
     ELSE /\ lastAlert' = "Success"
          /\ UNCHANGED <<isDeleting, targetId, currentIndex>>
  /\ cm' = [IdleCm EXCEPT !.again = cm.again]
  /\ cg' = [cg EXCEPT !.st = "done"]
  /\ lg' = NoListing
  /\ UNCHANGED <<store, albums, storageVars, images, imagesChanged, imagesLoading,
                 permissionGranted, markedForKeep, initialPositionLoaded, isUndoing,
                 imagesHash, startImageId, r, flush, ld, ut, plPending, countVars, rt>>

\* ------------------------------------------------------------ environment
\* the app is started again: memory is lost, AsyncStorage and the library stay
Restart ==
  /\ Settled
  /\ nRestarts < MaxRestarts /\ nRestarts + nExternal < MaxEnvEvents
  /\ nRestarts' = nRestarts + 1
  /\ startImageId' = None
  /\ images' = <<>> /\ imagesLoading' = TRUE /\ permissionGranted' = FALSE
  /\ imagesChanged' = FALSE
  /\ markedForDeletion' = {} /\ markedForKeep' = {}
  /\ currentIndex' = 0 /\ history' = <<>> /\ isDeleting' = FALSE
  /\ initialPositionLoaded' = FALSE /\ isUndoing' = FALSE
  /\ targetId' = None /\ imagesHash' = NoHash
  /\ r' = [images |-> <<>>, imagesLoading |-> TRUE, permissionGranted |-> FALSE,
           markedForDeletion |-> {}, currentIndex |-> 0, history |-> <<>>,
           isDeleting |-> FALSE]
  /\ flush' = FALSE
  /\ ld' = "perm" /\ cm' = IdleCm /\ ut' = IdleUt /\ plPending' = {}
  /\ cg' = NoCommit
  /\ rt' = NoRun
  /\ lg' = NoListing
  /\ lastAlert' = "none"
  /\ UNCHANGED <<store, albums, storageVars, nSwipes, nCommits, nExternal, nWriteFails>>

\* a photo disappears from the library without this app; the session can only
\* notice at its next listing, so the removal is taken right before one
ExternalRemove ==
  /\ Settled
  /\ ld = "fetch"
  /\ nExternal < MaxExternal /\ nRestarts + nExternal < MaxEnvEvents
  /\ nExternal' = nExternal + 1
  /\ \E id \in store : store' = store \ {id} /\ albums' = AlbumsWithout({id})
  /\ UNCHANGED <<storageVars, ctxVars, homeVars, refVars, startImageId, r, flush, ld, cm,
                 ut, plPending, cg, rt, lg, nSwipes, nCommits, nRestarts, nWriteFails>>
  /\ lastAlert' = "none"

Next ==
  \/ PermissionResult
  \/ LoadPersisted
  \/ LoadFetched
  \/ Render
  \/ HandleSwipeLeft
  \/ HandleSwipeRight
  \/ HandleUndo
  \/ UndoSaveTimer
  \/ UndoResetTimer
  \/ PositionLoaded
  \/ HandleCommitDeletion
  \/ DeleteSettles
  \/ RemovePersistedKeep
  \/ RemovePersistedDeletion
  \/ CommitFinish
  \/ Restart
  \/ ExternalRemove

Spec == Init /\ [][Next]_vars

\* The steps the runtime takes by itself: renders, promise continuations and
\* timers.  They are not starved; the user's gestures, a restart and changes
\* of the library by others are under no obligation to happen.
SystemStep ==
  \/ PermissionResult \/ LoadPersisted \/ LoadFetched \/ Render
  \/ UndoSaveTimer \/ UndoResetTimer \/ PositionLoaded
  \/ DeleteSettles \/ RemovePersistedKeep \/ RemovePersistedDeletion
  \/ CommitFinish

FairSpec == Spec /\ WF_vars(SystemStep)

\* a session that is neither restarted nor disturbed by other apps; timers,
\* renders and I/O completions are not postponed forever
QuietNext ==
  \/ PermissionResult
  \/ LoadPersisted
  \/ LoadFetched
  \/ Render
  \/ HandleSwipeLeft
  \/ HandleSwipeRight
  \/ HandleUndo
  \/ UndoSaveTimer
  \/ UndoResetTimer
  \/ PositionLoaded
  \/ HandleCommitDeletion
  \/ DeleteSettles
  \/ RemovePersistedKeep
  \/ RemovePersistedDeletion
  \/ CommitFinish
QuietFairSpec == Init /\ [][QuietNext]_vars /\ WF_vars(SystemStep)

\* ------------------------------- the pruning of the stored sets, step by step
\* removeFromPersistedKeep: `await loadPersistedKeptImages()`, the stored set is
\* read into cm.read
RemovePersistedKeepRead ==
  /\ Settled
  /\ cm.pc = "removingKeep"
  /\ cm' = [cm EXCEPT !.pc = "writingKeep", !.read = stKeep]
  /\ lastAlert' = "none"
  /\ UNCHANGED <<store, albums, storageVars, ctxVars, homeVars, refVars, startImageId,
                 r, flush, ld, ut, plPending, cg, countVars, rt, lg>>

\* removeFromPersistedKeep: the ids are taken out of the set that was read and
\* `await savePersistedKeptImages(currentKept)` writes it
RemovePersistedKeepWrite ==
  /\ Settled
  /\ cm.pc = "writingKeep"
  /\ stKeep' = cm.read \ cm.ids
  /\ cm' = [cm EXCEPT !.pc = "removingDeletion", !.read = {}]
  /\ lastAlert' = "none"
  /\ UNCHANGED <<store, albums, stDel, stLast, ctxVars, homeVars, refVars, startImageId,
                 r, flush, ld, ut, plPending, cg, countVars, rt, lg>>

\* removeFromPersistedDeletion: `await loadPersistedDeletionImages()`
RemovePersistedDeletionRead ==
  /\ Settled
  /\ cm.pc = "removingDeletion"
  /\ cm' = [cm EXCEPT !.pc = "writingDeletion", !.read = stDel]
  /\ lastAlert' = "none"
  /\ UNCHANGED <<store, albums, storageVars, ctxVars, homeVars, refVars, startImageId,
                 r, flush, ld, ut, plPending, cg, countVars, rt, lg>>

\* removeFromPersistedDeletion: `await savePersistedDeletionImages(...)`, then
\* refreshImages() starts loadImages
RemovePersistedDeletionWrite ==
  /\ Settled
  /\ cm.pc = "writingDeletion"
  /\ stDel' = cm.read \ cm.ids
  /\ IF cm.perm
     THEN /\ imagesLoading' = TRUE
          /\ ld' = "read"
          /\ cm' = [cm EXCEPT !.pc = "refreshing", !.read = {}]
          /\ lg' = ListingStart
     ELSE /\ cm' = [cm EXCEPT !.pc = "finish", !.read = {}]
          /\ UNCHANGED <<imagesLoading, ld, lg>>
  /\ lastAlert' = "none"
  /\ UNCHANGED <<store, albums, stKeep, stLast, images, imagesChanged, permissionGranted,
                 markedForDeletion, markedForKeep, homeVars, refVars, startImageId,
                 r, flush, ut, plPending, cg, countVars, rt>>

\* a session without undo, restart or changes made by other apps, in which the
\* two reads and the two writes of the pruning are steps of their own
PruneNext ==
  \/ PermissionResult
  \/ LoadPersisted
  \/ LoadFetched
  \/ Render
  \/ HandleSwipeLeft
  \/ HandleSwipeRight
  \/ PositionLoaded
  \/ HandleCommitDeletion
  \/ DeleteSettles
  \/ RemovePersistedKeepRead
  \/ RemovePersistedKeepWrite
  \/ RemovePersistedDeletionRead
  \/ RemovePersistedDeletionWrite
  \/ CommitFinish
PruneSpec == Init /\ [][PruneNext]_vars

\* ------------------------------------------- a second press of the button
\* The Delete button stays on screen while a commit is under way and
\* handleCommitDeletion does not look at isDeleting: the synchronous part runs
\* again, up to a second call of MediaLibrary.deleteAssetsAsync.
HandleCommitDeletionAgain ==
  /\ Turn /\ HandlersCallable
  /\ cm.pc # "idle" /\ ~cm.again.on
  /\ r.markedForDeletion # {}
  /\ nCommits < MaxCommits + 1
  /\ imagesHash' = r.images
  /\ IF TargetThrows(r.images, r.currentIndex)
     THEN /\ isDeleting' = FALSE                  \* catch (lines 382-387)
          /\ targetId' = None
          /\ lastAlert' = "Error"
          /\ UNCHANGED <<cm, nCommits, flush>>
     ELSE /\ lastAlert' = "none"
          /\ flush' = TRUE
          /\ nCommits' = nCommits + 1
          /\ isDeleting' = TRUE
          /\ targetId' = TargetAfterDeletion(r.images, r.currentIndex, r.markedForDeletion)
          /\ cm' = [cm EXCEPT !.again =
                      [on |-> TRUE, ids |-> r.markedForDeletion,
                       oldImages |-> r.images, oldHistory |-> r.history,
                       perm |-> r.permissionGranted]]
  /\ UNCHANGED <<store, albums, storageVars, ctxVars, currentIndex, history,
                 initialPositionLoaded, isUndoing, startImageId, r, ld, ut,
                 plPending, nSwipes, nRestarts, nExternal, nWriteFails, lg, cg, rt>>

\* the second call goes on from its await once the first call has returned
\* (the library serves the two delete requests in the order they were made)
SecondCommitProceeds ==
  /\ Settled
  /\ cm.pc = "idle" /\ cm.again.on
  /\ cm' = [pc |-> "deleting", ids |-> cm.again.ids,
            oldImages |-> cm.again.oldImages, oldHistory |-> cm.again.oldHistory,
            perm |-> cm.again.perm, again |-> NoSecond, read |-> {}]
  /\ lastAlert' = "none"
  /\ UNCHANGED <<store, albums, storageVars, ctxVars, homeVars, refVars, startImageId, r,
                 flush, ld, ut, plPending, cg, rt, lg, countVars>>

\* a session without undo, restart or changes made by other apps, in which the
\* button can be pressed a second time
ReentryNext ==
  \/ PermissionResult
  \/ LoadPersisted
  \/ LoadFetched
  \/ Render
  \/ HandleSwipeLeft
  \/ HandleSwipeRight
  \/ PositionLoaded
  \/ HandleCommitDeletion
  \/ HandleCommitDeletionAgain
  \/ DeleteSettles
  \/ RemovePersistedKeep
  \/ RemovePersistedDeletion
  \/ CommitFinish
  \/ SecondCommitProceeds
ReentrySpec == Init /\ [][ReentryNext]_vars

\* ------------------------------------------------- listing with albums
MaxAlbums == 2

\* a library whose photos may be in no album, in one, or in several
ListingInit ==
  /\ store = Ids
  /\ \E n \in 0..MaxAlbums : albums \in [1..n -> SUBSET Ids]
  /\ stKeep = {} /\ stDel = {} /\ stLast = None
  /\ images = <<>> /\ imagesLoading = TRUE /\ permissionGranted = FALSE
  /\ imagesChanged = FALSE
  /\ markedForDeletion = {} /\ markedForKeep = {}
  /\ currentIndex = 0 /\ history = <<>> /\ isDeleting = FALSE
  /\ initialPositionLoaded = FALSE /\ isUndoing = FALSE
  /\ targetId = None /\ imagesHash = NoHash
  /\ startImageId = None
  /\ r = [images |-> <<>>, imagesLoading |-> TRUE, permissionGranted |-> FALSE,
          markedForDeletion |-> {}, currentIndex |-> 0, history |-> <<>>,
          isDeleting |-> FALSE]
  /\ flush = FALSE /\ ld = "perm" /\ cm = IdleCm /\ ut = IdleUt /\ plPending = {}
  /\ cg = NoCommit /\ rt = NoRun /\ lastAlert = "none" /\ lg = NoListing
  /\ nSwipes = 0 /\ nCommits = 0 /\ nRestarts = 0 /\ nExternal = 0
  /\ nWriteFails = 0

\* the start of the app up to the first card
ListingNext ==
  \/ PermissionResult
  \/ LoadPersisted
  \/ LoadFetched
  \/ Render
  \/ PositionLoaded
ListingSpec == ListingInit /\ [][ListingNext]_vars

\* -------------------------------------- the two cursor rules, side by side
Min(a, b) == IF a <= b THEN a ELSE b
Max(a, b) == IF a >= b THEN a ELSE b

\* the earlier HomeScreen: the cursor handleCommitDeletion leaves behind when
\* the images in marked are removed from imgs (setCurrentIndex is not called
\* when no image is left)
IndexArithmeticCursor(imgs, idx, marked) ==
  LET newImages == SelectSeq(imgs, LAMBDA x : x \notin marked)
      newIndex == IF idx < Len(imgs) THEN FindIndex(newImages, At(imgs, idx)) ELSE -1
      deletedBeforeCurrent ==
        Cardinality({j \in 0..(idx - 1) : j < Len(imgs) /\ At(imgs, j) \in marked})
      adjustedIndex == Max(0, idx - deletedBeforeCurrent)
  IN IF Len(newImages) = 0 THEN idx
     ELSE IF newIndex # -1 THEN newIndex
     ELSE Min(adjustedIndex, Len(newImages) - 1)

\* the current HomeScreen: the target id is computed before the delete and
\* looked up in the refreshed list by the restore effect; with no image left
\* the handler and the effect both set 0
TargetIdCursor(imgs, idx, marked) ==
  LET newImages == SelectSeq(imgs, LAMBDA x : x \notin marked)
  IN IF Len(newImages) = 0 THEN 0
     ELSE RestoreIndex(newImages, TargetAfterDeletion(imgs, idx, marked))

\* any list of photos, any cursor in it or at its end, any non-empty set of
\* its photos marked for deletion
RuleInit ==
  /\ store \in SUBSET (1..RuleIds) /\ store # {}
  /\ albums = <<>>
  /\ images = SortedSeq(store)
  /\ currentIndex \in 0..Len(images)
  /\ markedForDeletion \in SUBSET store /\ markedForDeletion # {}
  /\ stKeep = {} /\ stDel = markedForDeletion /\ stLast = None
  /\ imagesLoading = FALSE /\ permissionGranted = TRUE /\ imagesChanged = FALSE
  /\ markedForKeep = {} /\ history = <<>> /\ isDeleting = FALSE
  /\ initialPositionLoaded = TRUE /\ isUndoing = FALSE
  /\ targetId = None /\ imagesHash = NoHash /\ startImageId = None
  /\ r = Snapshot
  /\ flush = FALSE /\ ld = "idle" /\ cm = IdleCm /\ ut = IdleUt /\ plPending = {}
  /\ cg = NoCommit /\ rt = NoRun /\ lastAlert = "none" /\ lg = NoListing
  /\ nSwipes = 0 /\ nCommits = 0 /\ nRestarts = 0 /\ nExternal = 0
  /\ nWriteFails = 0

\* what both variants do alike when the library removes exactly the marked
\* photos: the list loses them and the marks are cleared
RuleCommitFrame ==
  /\ markedForDeletion # {}
  /\ store' = store \ markedForDeletion
  /\ albums' = AlbumsWithout(markedForDeletion)
  /\ images' = SelectSeq(images, LAMBDA x : x \notin markedForDeletion)
  /\ markedForDeletion' = {} /\ stDel' = {}
  /\ r' = [r EXCEPT !.images = images', !.markedForDeletion = {},
                    !.currentIndex = currentIndex']
  /\ UNCHANGED <<stKeep, stLast, imagesChanged, imagesLoading, permissionGranted,
                 markedForKeep, history, isDeleting, refVars, startImageId, flush,
                 ld, cm, ut, plPending, cg, rt, lg, countVars>>

\* handleCommitDeletion of the earlier HomeScreen, from call to last setState
CommitByIndex ==
  /\ currentIndex' = IndexArithmeticCursor(images, currentIndex, markedForDeletion)
  /\ lastAlert' = IF \A i \in 1..Len(images) : images[i] \in markedForDeletion
                  THEN "AllDeleted" ELSE "Success"
  /\ RuleCommitFrame

\* handleCommitDeletion of the current HomeScreen with its restore effect
CommitByTarget ==
  /\ currentIndex' = TargetIdCursor(images, currentIndex, markedForDeletion)
  /\ lastAlert' = "none"
  /\ RuleCommitFrame

RuleNext == CommitByIndex \/ CommitByTarget
RuleSpec == RuleInit /\ [][RuleNext]_vars

\* ================================================================ claims
\* a commit is in flight from the call of handleCommitDeletion until the
\* restore effect (or the handler itself) has reset isDeleting
InFlight == cm.pc # "idle" \/ isDeleting
CommitStarts == cm.pc = "idle" /\ cm'.pc = "deleting"
CommitCompletes == InFlight /\ ~InFlight' /\ nRestarts' = nRestarts

\* the ids of s that are not in D, in the order of s
Survivors(s, D) == SelectSeq(s, LAMBDA x : x \notin D)

\* C1: the ids handed to deleteAssetsAsync are exactly the ids marked for
\* deletion at the moment handleCommitDeletion is called
C1_SentIsMarked == [][CommitStarts => cm'.ids = markedForDeletion]_vars

\* the landing position the claim C2 describes, as an index into the
\* survivors of old sequence s with cursor c and deleted set D
LandingId(s, c, D) ==
  IF c < Len(s) /\ At(s, c) \notin D THEN At(s, c)
  ELSE IF \E j \in (c + 1)..(Len(s) - 1) : At(s, j) \notin D
       THEN At(s, CHOOSE j \in (c + 1)..(Len(s) - 1) :
                    At(s, j) \notin D /\ \A k \in (c + 1)..(j - 1) : At(s, k) \in D)
       ELSE IF \E j \in 0..(c - 1) : j < Len(s) /\ At(s, j) \notin D
            THEN At(s, CHOOSE j \in 0..(c - 1) :
                         /\ j < Len(s) /\ At(s, j) \notin D
                         /\ \A k \in (j + 1)..(c - 1) : k < Len(s) => At(s, k) \in D)
            ELSE None

LandingIndex(s, c, D) ==
  IF LandingId(s, c, D) = None THEN 0
  ELSE FindIndex(Survivors(s, D), LandingId(s, c, D))

\* the store removed exactly the pending-delete set and nothing else changed
ExactCommit ==
  /\ cg'.st = "done"
  /\ cg'.removed = cg'.marked
  /\ images' = Survivors(cg'.images, cg'.marked)

\* C2: after a commit in which the store removed exactly D, the cursor is the
\* index of the item at the pre-commit cursor if it survives, else of the
\* first survivor after it, else of the last survivor before it, else 0
C2_CursorAfterCommit ==
  [][(CommitCompletes /\ ExactCommit)
       => currentIndex' = LandingIndex(cg'.images, cg'.cursor, cg'.marked)]_vars

\* the steps that are calls of tag / undo
TagCall == HandleSwipeLeft \/ HandleSwipeRight
UndoCall == HandleUndo
SessionUnchanged ==
  UNCHANGED <<markedForDeletion, markedForKeep, history, currentIndex>>

\* C3: when the store removed only a proper subset of the requested ids, exactly
\* the requested ids it did not remove are still marked for deletion afterwards
C3_PartialKeepsMarks ==
  [][(CommitCompletes /\ cg'.st = "done" /\ cg'.removed # cg'.sent)
       => markedForDeletion' \cap cg'.sent = cg'.sent \ cg'.removed]_vars

\* C4: n tag calls followed by n undo calls, starting from an empty ledger and
\* history, leave the ledger empty and the cursor where it was
C4_RoundTrip ==
  [][(UndoCall /\ rt'.on /\ rt'.u = rt'.n)
       => /\ markedForDeletion' = {} /\ markedForKeep' = {}
          /\ currentIndex' = rt'.c0]_vars

\* C5: a tag on the last item leaves the cursor at length(Sequence), and a tag
\* with the cursor at the length changes nothing
C5_LastThenNoop ==
  [][(TagCall /\ ~isUndoing /\ r = Snapshot)
       => /\ currentIndex = Len(images) - 1 => currentIndex' = Len(images)
          /\ currentIndex >= Len(images) => SessionUnchanged]_vars

\* C6: while a commit is in flight no tag and no undo changes ledger, history
\* or cursor
C6_NoMutationInFlight ==
  [][(InFlight /\ (TagCall \/ UndoCall)) => SessionUnchanged]_vars

\* C7: no id is marked both keep and delete
C7_MutuallyExclusive == markedForDeletion \cap markedForKeep = {}

\* C8: the cursor is an index of the sequence or its length
C8_CursorInBounds == 0 <= currentIndex /\ currentIndex <= Len(images)

\* the listing that replaced the sequence reflects the library
Listed == images' = SortedSeq(store')
Range(q) == {q[i] : i \in 1..Len(q)}

\* C9: after a commit in which the store removed exactly the requested ids D,
\* no id of D is in the ledger and none is in the new sequence
C9_DeletedGone ==
  [][(CommitCompletes /\ cg'.st = "done" /\ cg'.removed = cg'.sent /\ Listed)
       => /\ (markedForDeletion' \cup markedForKeep') \cap cg'.sent = {}
          /\ Range(images') \cap cg'.sent = {}]_vars

\* C10: when the delete call rejects, ledger, cursor and history are as they
\* were when the commit was invoked, and the guard is cleared
C10_RejectRestores ==
  [][(cg.st = "inflight" /\ cg'.st = "rejected")
       => /\ markedForDeletion' = cg'.marked /\ markedForKeep' = cg'.keep
          /\ currentIndex' = cg'.cursor /\ history' = cg'.history
          /\ ~isDeleting']_vars

\* C11: handleUndo called while the history is empty raises "Nothing to undo"
\* and changes none of ledger, cursor, history, last-viewed id, undo flag
C11_UndoOnEmpty ==
  [][(UndoCall /\ history = <<>>)
       => /\ lastAlert' = "NothingToUndo"
          /\ SessionUnchanged
          /\ UNCHANGED <<stKeep, stDel, stLast, isUndoing>>]_vars

\* C12: handleCommitDeletion called while no id is marked for deletion raises
\* "No images", issues no delete call, does not set isDeleting and changes none
\* of sequence, ledger, cursor, history
C12_EmptyCommit ==
  [][(HandleCommitDeletion /\ markedForDeletion = {})
       => /\ lastAlert' = "NoImages"
          /\ cm' = cm /\ isDeleting' = isDeleting
          /\ images' = images
          /\ SessionUnchanged]_vars

\* a commit has run to its end (resolved or rejected) in this step
CommitEnds == CommitCompletes /\ cg'.st \in {"done", "rejected"}

\* C13: after every commit every history entry is an index of the new sequence
C13_HistoryInBounds ==
  [][CommitEnds
       => \A i \in 1..Len(history') :
            history'[i].index >= 0 /\ history'[i].index < Len(images')]_vars

\* C14: after a commit no history entry refers to a removed item, and every
\* remaining entry points, in the new sequence, at the item it pointed at in
\* the sequence the commit started from
C14_HistoryRefersToSameItem ==
  [][(CommitEnds /\ cg'.st = "done")
       => \A i \in 1..Len(history') :
            LET e == history'[i]
            IN /\ e.index < Len(cg'.images)
               /\ At(cg'.images, e.index) \notin cg'.removed
               /\ e.index < Len(images')
               /\ At(images', e.index) = At(cg'.images, e.index)]_vars

\* every item of the sequence was marked for deletion and the store removed
\* them all
AllDeleted(c) ==
  /\ c.st = "done" /\ Len(c.images) > 0
  /\ c.marked = Range(c.images) /\ c.removed = Range(c.images)

C16_CommitFinishes == (cm.pc = "deleting") ~> ~InFlight

\* C17: isDeleting is set from the call of deleteAssetsAsync until
\* handleCommitDeletion has cleared the delete marks and pruned the history
C17_GuardCoversCommit == cm.pc # "idle" => isDeleting

C19_LedgerSurvivesRestart ==
  (ld = "idle" /\ permissionGranted /\ cm.pc = "idle")
    => (stKeep = markedForKeep /\ stDel = markedForDeletion)

\* C20: after a persistence write has failed, the refresh of a commit leaves
\* the ledger held in memory as it is, apart from the ids the commit handed to
\* the store
C20_MemoryAuthoritative ==
  [][(LoadPersisted /\ cm.pc = "refreshing" /\ nWriteFails > 0)
       => /\ markedForKeep' = markedForKeep \ cm.ids
          /\ markedForDeletion' = markedForDeletion \ cm.ids]_vars

\* the listing of loadImages throws: setImages is not reached
ListingThrows == LoadFetched /\ ~imagesChanged'

\* after the step, sequence, cursor and history / the ledger are those of
\* record l
SameSequenceAfter(l) ==
  images' = l.images /\ currentIndex' = l.cursor /\ history' = l.history
SameLedgerAfter(l) ==
  markedForDeletion' = l.marked /\ markedForKeep' = l.keep

\* C21: when the listing of loadImages fails, "Failed to load images" is raised
\* and sequence, cursor and history are what they were when loadImages was
\* started; so is the ledger when the listing is the refresh of a commit (on a
\* cold start the ledger is first read from storage), both when loadImages
\* returns and when its caller, handleCommitDeletion, has returned
C21_ListingFailureKeepsSession ==
  [][/\ (ListingThrows /\ lg.st = "running")
          => /\ lastAlert' = "LoadError"
             /\ SameSequenceAfter(lg)
             /\ cm.pc = "refreshing" => SameLedgerAfter(lg)
     /\ (CommitFinish /\ lg.st = "failed")
          => (SameSequenceAfter(lg) /\ SameLedgerAfter(lg))]_vars

\* C22: while permissionGranted is false the sequence is empty and no listing
\* is running or started, and a call of handleSwipeLeft/Right, handleUndo or
\* handleCommitDeletion leaves ledger, history, cursor and sequence unchanged
\* and starts no delete call
C22_DeniedHoldsNothing ==
  [][/\ ~permissionGranted' => (images' = <<>> /\ ld' \in {"perm", "idle"})
     /\ (~permissionGranted /\ (TagCall \/ UndoCall \/ HandleCommitDeletion))
          => (SessionUnchanged /\ UNCHANGED <<images, ld, cm, store, storageVars>>)]_vars

C22_Witness ==
  /\ ~permissionGranted /\ ld = "idle" /\ nRestarts = 0
  /\ nSwipes > 0 /\ lastAlert = "NoImages"

\* the index the initial-position logic is to resolve id to: where id is in the
\* sequence, else the cursor as it is
ResolvedIndex(id) ==
  IF id # None /\ FindIndex(images, id) # -1 THEN FindIndex(images, id)
  ELSE currentIndex

\* the steps of the initial-position effect that settle the position
ResolvesFromParam == Render /\ ~initialPositionLoaded /\ initialPositionLoaded'
ResolvesFromMemory == PositionLoaded /\ ~initialPositionLoaded

\* C23: the initial position is settled once: from params.startImageId when it
\* is given, else from the stored last-viewed id; the cursor becomes the index
\* of that id in the sequence, or is left alone when the id is not in it; a
\* later answer of loadLastViewedImage moves nothing
C23_InitialCursor ==
  [][/\ ResolvesFromParam
          => (startImageId # None /\ currentIndex' = ResolvedIndex(startImageId))
     /\ ResolvesFromMemory
          => /\ startImageId = None
             /\ \E p \in plPending \ plPending' : currentIndex' = ResolvedIndex(p.last)
     /\ (PositionLoaded /\ initialPositionLoaded) => currentIndex' = currentIndex]_vars

\* nothing is under way: the initial position is settled, no undo timer is
\* pending, no commit is in flight, no listing is running and the committed
\* state has been rendered (the effects have run)
Quiescent ==
  /\ initialPositionLoaded /\ plPending = {}
  /\ ~isUndoing /\ ut.pc = "idle"
  /\ ~InFlight /\ ld = "idle"
  /\ Settled

\* C24: whenever the session is quiescent and the cursor is on an item, the
\* stored last-viewed id is the id of that item
C24_LastViewedIsCursor ==
  (Quiescent /\ currentIndex < Len(images)) => stLast = At(images, currentIndex)

\* the top entry of the history, and whether it points into the sequence
TopEntry == history[Len(history)]
TopInBounds == TopEntry.index >= 0 /\ TopEntry.index < Len(images)

\* an undo call, from the undo button (shown while the rendered history is not
\* empty), that is neither turned away by the undo in progress nor made while a
\* commit is in flight, on a non-empty history
UndoActs ==
  UndoCall /\ r.history # <<>> /\ ~isUndoing /\ ~InFlight /\ history # <<>>

\* C25: handleUndo with a top entry inside the sequence removes that entry, sets
\* the cursor to its index and leaves the item at that index in neither set
C25_UndoClearsItem ==
  [][(UndoActs /\ TopInBounds)
       => /\ history' = ButLast(history)
          /\ currentIndex' = TopEntry.index
          /\ At(images, TopEntry.index) \notin markedForDeletion' \cup markedForKeep']_vars

\* C26: handleUndo with a top entry outside the sequence removes that entry and
\* nothing else: ledger, cursor and stored last-viewed id stay, no save timer is
\* started and the remaining entries are untouched
C26_StaleEntryDiscarded ==
  [][(UndoActs /\ ~TopInBounds)
       => /\ history' = ButLast(history)
          /\ UNCHANGED <<markedForDeletion, markedForKeep, stKeep, stDel,
                         currentIndex, stLast, isUndoing>>
          /\ ut'.pc = ut.pc]_vars

\* what a tag in direction left does to the item at the cursor, the history and
\* the cursor
TagTakesEffect(left) ==
  /\ At(images, currentIndex) \in (IF left THEN markedForDeletion' ELSE markedForKeep')
  /\ At(images, currentIndex) \notin (IF left THEN markedForKeep' ELSE markedForDeletion')
  /\ history' = Append(history, [index |-> currentIndex, wasLeftSwipe |-> left])
  /\ currentIndex' = currentIndex + 1

\* the state a tag is called in: rendered, the cursor on an item that is not
\* the last one (the last item is the case of C5), no commit in flight
TagPrecondition ==
  r = Snapshot /\ currentIndex + 1 < Len(images) /\ ~InFlight

\* C27: with the cursor on an item and no commit in flight, a call of
\* handleSwipeLeft / handleSwipeRight marks that item, pushes its entry and
\* advances the cursor
C27_TagTakesEffect ==
  [][/\ (HandleSwipeLeft /\ TagPrecondition) => TagTakesEffect(TRUE)
     /\ (HandleSwipeRight /\ TagPrecondition) => TagTakesEffect(FALSE)]_vars

\* the render in which the restore effect ends the commit
Reconciles == Render /\ isDeleting /\ ~isDeleting'

C29_KeepMarksSurvive ==
  [][(CommitEnds /\ cg'.st = "done")
       => \A id \in cg'.keep \cap Range(images') : id \in markedForKeep']_vars

\* no mark was added since handleCommitDeletion was called
NoNewMarks ==
  markedForDeletion' \subseteq cg'.marked /\ markedForKeep' \subseteq cg'.keep

\* C30: after a commit that resolved and whose listing reflects the library,
\* every id in the ledger is an id of the new sequence (stated for the commits
\* during which no mark was added)
C30_LedgerPruned ==
  [][(CommitEnds /\ cg'.st = "done" /\ Listed /\ NoNewMarks)
       => (markedForDeletion' \cup markedForKeep') \subseteq Range(images')]_vars

\* C31: when the marked photos, and only they, are removed, the earlier
\* HomeScreen leaves the cursor where the current one puts it, for every list,
\* cursor and marked set
C31_CursorRulesAgree ==
  [][CommitByIndex
       => currentIndex' = TargetIdCursor(images, currentIndex, markedForDeletion)]_vars

\* C32: a call of handleCommitDeletion made while an earlier commit has not
\* finished issues no second deleteAssetsAsync call and leaves the captured
\* target id as it is
C32_OneCommitInFlight ==
  [][cm.pc # "idle" /\ nCommits' # nCommits
       => ~cm'.again.on /\ targetId' = targetId]_vars

\* C33: every list of images produced by loadImages holds each id at most
\* once, also when a photo is in several albums
C33_NoDuplicateIds ==
  \A i, j \in 1..Len(images) : images[i] = images[j] => i = j

\* C34: once a tag has been applied, the result of loadLastViewedImage()
\* arriving late leaves the cursor where the tags have put it
C34_LatePositionKeepsCursor ==
  [][PositionLoaded /\ history # <<>> => currentIndex' = currentIndex]_vars

\* C35: nothing is written under the last-viewed key while the initial position
\* of the session is still unresolved, and the step that resolves it stores, if
\* anything, the id of the item at the resolved cursor (not the one at 0)
C35_NoSaveBeforePosition ==
  [][nRestarts' = nRestarts
       => /\ ~initialPositionLoaded' => stLast' = stLast
          /\ (~initialPositionLoaded /\ initialPositionLoaded' /\ stLast' # stLast)
               => stLast' = At(images', currentIndex')]_vars

\* a tag that is applied after an earlier tag which has not been rendered yet
\* (both handlers run on the same rendered state), with an item left after the
\* cursor and no commit in flight
TagApplied ==
  /\ TagCall /\ ~isUndoing /\ ~InFlight
  /\ r.images = images /\ r.currentIndex < Len(r.images)
  /\ Len(history) > Len(r.history)
  /\ currentIndex + 1 < Len(images)

\* C36: every applied tag marks the item at the cursor, records the index of
\* the cursor in the history and advances the cursor by one, also when tags
\* arrive faster than the screen is rendered: no item is passed over unmarked
C36_NoItemSkipped ==
  [][TagApplied
       => /\ At(images, currentIndex) \in markedForDeletion' \cup markedForKeep'
          /\ Len(history') = Len(history) + 1
          /\ history'[Len(history')].index = currentIndex
          /\ currentIndex' = currentIndex + 1]_vars

\* C37: an undo in progress always comes to its end: isUndoingRef, once set by
\* handleUndo, is cleared again and no timer of the undo is left pending, so
\* that handleSwipeLeft/Right and handleUndo pass their guard again
C37_UndoCompletes == isUndoing ~> (~isUndoing /\ ut.pc = "idle")

C37_Witness == isUndoing /\ ut.pc = "t100" /\ Len(history) > 0

\* C38: the writes of a commit's pruning take only the ids of the commit out of
\* the stored sets: a mark that a tag has stored while the pruning was under way
\* is still stored after them
C38_NoLostMark ==
  [][/\ RemovePersistedKeepWrite => (stKeep \ cm.ids) \subseteq stKeep'
     /\ RemovePersistedDeletionWrite => (stDel \ cm.ids) \subseteq stDel']_vars

====
